---- MODULE Spec2Model ----
(***************************************************************************)
(* Model of ampel.util.apitools.Stream (src/ampel/util/apitools.py).       *)
(*                                                                         *)
(* Python dicts are TLA+ records: a key that is missing from a dict is a   *)
(* field that is missing from the record, so `"magpsf" in a.keys()` is     *)
(* "magpsf" \in DOMAIN a and dict equality is record equality.             *)
(* Alert dicts are objects with identity: they live in `heap` and the      *)
(* lists self.alert_list / self.merged_list hold heap indices, so that an  *)
(* in-place change made through one list is seen through the other.        *)
(* Python's None result values are the empty tuple, a value v is <<v>>.    *)
(* Julian dates are integers; a modified Julian date jd - 2400000.5 is     *)
(* kept in half days, 2*jd - 4800001.  A mean is the exact fraction       *)
(* <<numerator, denominator>> in lowest terms.                             *)
(*                                                                         *)
(* Spec and SpecInfo follow one instance that reads one stream and then    *)
(* merges and extracts, any number of times and in any order; they differ  *)
(* in the alerts the stream can hold.  SpecStream follows generic_stream   *)
(* and the attempts of access_stream under its backoff decorator.          *)
(***************************************************************************)
EXTENDS Integers, Sequences, FiniteSets, TLC

VARIABLES
    heap,          \* the alert dicts ever yielded by the loader, by identity
    attrs,         \* names of the attributes assigned on self so far
    alert_list,    \* self.alert_list   (sequence of heap indices)
    merged_list,   \* self.merged_list  (sequence of heap indices)
    data,          \* self.data         (rows sorted by objectId)
    resume_token,  \* self.resume_token
    cache_file,    \* content of <cache_dir>/resume_token.json
    call,          \* the last call made on the instance and how it ended
    n_info,        \* number of get_info_from_alerts calls made
    retry          \* state of the backoff decorator around access_stream

vars == <<heap, attrs, alert_list, merged_list, data, resume_token,
          cache_file, call, n_info, retry>>

-----------------------------------------------------------------------------
(* Bounds of the model *)

MaxHeap == 3          \* alert dicts yielded by the loader over a whole run
MaxInfoAlerts == 2    \* the same, in the feature-extraction specification
MaxInfoCalls == 2     \* calls of get_info_from_alerts in a run

-----------------------------------------------------------------------------
(* Generic helpers for Python lists *)

None == <<>>
Some(v) == <<v>>

Range(s) == { s[i] : i \in DOMAIN s }

\* list.index(x): the first position holding x
Index(s, x) == CHOOSE i \in DOMAIN s : s[i] = x /\ \A j \in 1..(i-1) : s[j] # x

\* x in list
In(x, s) == \E i \in DOMAIN s : s[i] = x

\* list.count(x)
Count(x, s) == Cardinality({ i \in DOMAIN s : s[i] = x })

MinOf(s) == CHOOSE m \in Range(s) : \A v \in Range(s) : m <= v
MaxOf(s) == CHOOSE m \in Range(s) : \A v \in Range(s) : m >= v

RECURSIVE InsertSorted(_, _)
InsertSorted(v, s) ==
    IF s = <<>> THEN <<v>>
    ELSE IF v <= Head(s) THEN <<v>> \o s
    ELSE <<Head(s)>> \o InsertSorted(v, Tail(s))

\* sorted(s): ascending
RECURSIVE Sorted(_)
Sorted(s) == IF s = <<>> THEN <<>> ELSE InsertSorted(Head(s), Sorted(Tail(s)))

\* s[::-1]
Reverse(s) == [i \in DOMAIN s |-> s[Len(s) + 1 - i]]

RECURSIVE SumOf(_)
SumOf(s) == IF s = <<>> THEN 0 ELSE Head(s) + SumOf(Tail(s))

\* every ordering of a finite set, as sequences without repetition
Orderings(S) ==
    { s \in [1..Cardinality(S) -> S] : \A i, j \in DOMAIN s : i # j => s[i] # s[j] }

-----------------------------------------------------------------------------
(* The alerts the loader can yield *)

\* Julian dates of the catalogue: day k of the survey
Epoch(k) == 2459000 + k
ObjectIds == {1, 2}

\* a detection of the history window, with a magnitude
PrvDet(j, f, m) == [jd |-> j, fid |-> f, magpsf |-> m, ra |-> 10 + (j - Epoch(0))]
\* an upper limit of the history window: no magpsf, no ra
PrvLim(j, f) == [jd |-> j, fid |-> f, diffmaglim |-> 20]
\* the current detection of an alert
Cand(j, f, m, h) ==
    [jd |-> j, fid |-> f, magpsf |-> m, ra |-> 10 + (j - Epoch(0)), jdstarthist |-> h]

Alert(o, c, p) == [objectId |-> o, candidate |-> c, prv_candidates |-> p]

\* object 1: two epochs, each seen by two alerts that differ in history
\* start and history window; object 2: one alert per epoch
MergeCatalog ==
    { Alert(1, Cand(Epoch(1), 1, 18, Epoch(-1)), <<>>),
      Alert(1, Cand(Epoch(1), 1, 18, Epoch(0)), <<PrvLim(Epoch(0), 2)>>),
      Alert(1, Cand(Epoch(2), 1, 18, Epoch(0)), <<>>),
      Alert(1, Cand(Epoch(2), 1, 18, Epoch(-1)), <<PrvLim(Epoch(0), 2)>>),
      Alert(2, Cand(Epoch(1), 2, 17, Epoch(0)), <<>>),
      Alert(2, Cand(Epoch(2), 2, 17, Epoch(-1)), <<PrvDet(Epoch(0), 2, 17)>>) }

\* alerts of one object that differ in epoch, band and magnitude; the first
\* epoch has an upper limit in its window, the second a detection
InfoCatalog ==
    { Alert(1, Cand(Epoch(1), f, m, Epoch(0)), <<PrvLim(Epoch(0), 2)>>) :
        f \in {1, 2}, m \in {17, 18} }
    \cup { Alert(1, Cand(Epoch(2), f, m, Epoch(0)), <<PrvDet(Epoch(0), 1, 17)>>) :
        f \in {1, 2}, m \in {17, 18} }

\* the streams of at most n alerts: the archive yields an alert once
SeqsUpTo(S, n) ==
    UNION { { s \in [1..k -> S] : \A i, j \in 1..k : i # j => s[i] # s[j] } :
            k \in 0..n }

-----------------------------------------------------------------------------
(* Stream.merge_alerts *)

\* a grouping that forgets the objectId test
GroupOf_NoFilter(h, lst, objectid) == lst

\* alerts = [x for x in alert_list if x["objectId"] == objectid]
GroupOf(h, lst, objectid) == SelectSeq(lst, LAMBDA i : h[i].objectId = objectid)

\* for prv in x["prv_candidates"] + [x["candidate"]]:
\*     if prv not in latest["prv_candidates"]:
\*         latest["prv_candidates"] = [prv] + latest["prv_candidates"]
RECURSIVE MergeDetections(_, _, _)
MergeDetections(h, latest, dets) ==
    IF dets = <<>> THEN h
    ELSE LET prv == Head(dets)
             h2  == IF ~In(prv, h[latest].prv_candidates)
                    THEN [h EXCEPT ![latest].prv_candidates = <<prv>> \o @]
                    ELSE h
         IN  MergeDetections(h2, latest, Tail(dets))

\* for index in order[1:]: x = alerts[index]; merge x into latest
RECURSIVE MergeOthers(_, _, _, _)
MergeOthers(h, alerts, latest, order) ==
    IF order = <<>> THEN h
    ELSE LET x == h[alerts[Head(order)]]
         IN  MergeOthers(
                 MergeDetections(h, latest, x.prv_candidates \o <<x.candidate>>),
                 alerts, latest, Tail(order))

\* order = [jds.index(x) for x in sorted(jds)[::-1]]
OrderOf(jds) == LET desc == Reverse(Sorted(jds))
                IN  [k \in DOMAIN desc |-> Index(jds, desc[k])]

\* max() written for min()
MinStartHist_Max(h, alerts) ==
    MaxOf([k \in DOMAIN alerts |-> h[alerts[k]].candidate.jdstarthist])

\* min([x["candidate"]["jdstarthist"] for x in alerts])
MinStartHist(h, alerts) ==
    MinOf([k \in DOMAIN alerts |-> h[alerts[k]].candidate.jdstarthist])

\* the body of the loop over keys for one objectid: the heap after it and
\* the alert appended to merged_list
MergeGroup(h, alerts) ==
    IF Len(alerts) = 1
    THEN [heap |-> h, out |-> alerts[1]]
    ELSE LET jds    == [k \in DOMAIN alerts |-> h[alerts[k]].candidate.jd]
             order  == OrderOf(jds)
             latest == alerts[Index(jds, MaxOf(jds))]
             h1     == [h EXCEPT ![latest].candidate.jdstarthist =
                                       MinStartHist(h, alerts)]
         IN  [heap |-> MergeOthers(h1, alerts, latest, Tail(order)),
              out  |-> latest]

\* for objectid in keys: ...; keys in the order the set iteration gives
RECURSIVE MergeKeys(_, _, _, _)
MergeKeys(h, lst, keys, merged) ==
    IF keys = <<>> THEN [heap |-> h, merged_list |-> merged]
    ELSE LET g == MergeGroup(h, GroupOf(h, lst, Head(keys)))
         IN  MergeKeys(g.heap, lst, Tail(keys), Append(merged, g.out))

\* keys = list(set([x["objectId"] for x in alert_list]))
KeysOf(h, lst) == { h[lst[i]].objectId : i \in DOMAIN lst }

\* the record of a call: its arguments, the instance as it was before, how
\* the call ended and what it returned
NoCall == [op |-> "none", given |-> FALSE, arg |-> <<>>, eff |-> <<>>,
           pre |-> <<>>, pre_attrs |-> {}, pre_alert_list |-> <<>>,
           response_ok |-> FALSE, cache |-> "",
           ret |-> <<>>, raised |-> "", hist |-> <<>>,
           retried |-> FALSE, elapsed |-> 0, only423 |-> TRUE]

\* merge_alerts(alert_list): `given` tells a list from None
MergeAlertsCall(given, arg) ==
    LET fallback == ~given \/ arg = <<>>          \* if not alert_list:
        c0 == [NoCall EXCEPT !.op = "merge_alerts", !.given = given,
                             !.arg = arg, !.pre = heap]
    IN  IF fallback /\ "alert_list" \notin attrs
        THEN /\ call' = [c0 EXCEPT !.raised = "AttributeError"]
             /\ UNCHANGED <<heap, attrs, alert_list, merged_list, data,
                            resume_token, cache_file, n_info, retry>>
        ELSE LET lst == IF fallback THEN alert_list ELSE arg
             IN  \E keys \in Orderings(KeysOf(heap, lst)) :
                   LET r == MergeKeys(heap, lst, keys, <<>>)
                   IN  /\ heap' = r.heap
                       /\ merged_list' = r.merged_list
                       /\ attrs' = attrs \cup {"merged_list"}
                       /\ call' = [c0 EXCEPT !.eff = lst, !.ret = r.merged_list]
                       /\ UNCHANGED <<alert_list, data, resume_token,
                                      cache_file, n_info, retry>>

\* the lists a caller holds and can pass: none, an empty one, the loaded one
merge_alerts ==
    \/ MergeAlertsCall(FALSE, <<>>)
    \/ MergeAlertsCall(TRUE, <<>>)
    \/ /\ "alert_list" \in attrs /\ alert_list # <<>>
       /\ MergeAlertsCall(TRUE, alert_list)

-----------------------------------------------------------------------------
(* Stream.get_info_from_alerts *)

filternames == [f \in {1, 2, 3} |-> <<"g", "r", "i">>[f]]
key_list == <<"ra", "dec", "distnr">>
PeakKey(f) == <<"peak_mjd_g", "peak_mjd_r", "peak_mjd_i">>[f]

RECURSIVE GCD(_, _)
GCD(a, b) == IF b = 0 THEN a ELSE GCD(b, a % b)

\* np.mean of a non-empty list of non-negative integers, as a reduced fraction
Mean(vals) == LET s == SumOf(vals)
                  n == Len(vals)
                  g == GCD(s, n)
              IN  <<s \div g, n \div g>>

\* an argmin that returns the last position of the minimum
ArgMin_Last(s) == CHOOSE i \in DOMAIN s :
                      s[i] = MinOf(s) /\ \A j \in (i+1)..Len(s) : s[j] # MinOf(s)

\* np.argmin: the first position of the minimum
ArgMin(s) == Index(s, MinOf(s))

\* jd[i] - 2400000.5, in half days
ToMjd(jd) == 2 * jd - 4800001

\* for a in prv: if "magpsf" in a.keys(): detections.append(a)
Detections(prv) == SelectSeq(prv, LAMBDA a : "magpsf" \in DOMAIN a)

\* the loop over key_list for one key
MeanFeature(detections, key) ==
    LET with_key      == SelectSeq(detections, LAMBDA d : key \in DOMAIN d)
        list_for_mean == [i \in DOMAIN with_key |-> with_key[i][key]]
    IN  IF list_for_mean # <<>> THEN Some(Mean(list_for_mean)) ELSE None

\* the loop over range(1, 4) for one filter f
PeakFeature(detections, f) ==
    LET band   == SelectSeq(detections, LAMBDA d : d.fid = f)
        magpsf == [i \in DOMAIN band |-> band[i].magpsf]
        jd     == [i \in DOMAIN band |-> band[i].jd]
    IN  IF Len(magpsf) > 0 THEN Some(ToMjd(jd[ArgMin(magpsf)])) ELSE None

\* _returndict of one transient
ReturnDict(detections) ==
    [k \in Range(key_list) \cup { PeakKey(f) : f \in DOMAIN filternames } |->
        IF k \in Range(key_list)
        THEN MeanFeature(detections, k)
        ELSE PeakFeature(detections,
                         CHOOSE f \in DOMAIN filternames : PeakKey(f) = k)]

\* data.update({objectId: _returndict}) on a dict kept as a function
DictUpdate(d, k, v) == [x \in DOMAIN d \cup {k} |-> IF x = k THEN v ELSE d[x]]

\* for transient in merged_list: ...   (prv.append changes the alert's own list)
RECURSIVE InfoLoop(_, _, _, _)
InfoLoop(h, mlist, d, hist) ==
    IF mlist = <<>> THEN [heap |-> h, data |-> d, hist |-> hist]
    ELSE LET transient == Head(mlist)
             h2  == [h EXCEPT ![transient].prv_candidates =
                                  Append(@, h[transient].candidate)]
             prv == h2[transient].prv_candidates
         IN  InfoLoop(h2, Tail(mlist),
                      DictUpdate(d, h2[transient].objectId,
                                 ReturnDict(Detections(prv))),
                      Append(hist, prv))

\* pd.DataFrame.from_dict(data, orient="index") and sort_index
SortedFrame(d) ==
    LET idx == CHOOSE s \in Orderings(DOMAIN d) :
                   \A i, j \in DOMAIN s : i < j => s[i] < s[j]
    IN  [i \in DOMAIN idx |-> [objectId |-> idx[i], row |-> d[idx[i]]]]

GetInfoCall(given, arg) ==
    LET fallback == ~given \/ arg = <<>>          \* if not merged_list:
        c0 == [NoCall EXCEPT !.op = "get_info_from_alerts", !.given = given,
                             !.arg = arg, !.pre = heap]
    IN  /\ n_info < MaxInfoCalls
        /\ n_info' = n_info + 1
        /\ IF fallback /\ "merged_list" \notin attrs
           THEN /\ call' = [c0 EXCEPT !.raised = "AttributeError"]
                /\ UNCHANGED <<heap, attrs, alert_list, merged_list, data,
                               resume_token, cache_file, retry>>
           ELSE LET lst == IF fallback THEN merged_list ELSE arg
                    r   == InfoLoop(heap, lst, <<>>, <<>>)
                IN  /\ heap' = r.heap
                    /\ data' = SortedFrame(r.data)
                    /\ attrs' = attrs \cup {"data"}
                    /\ call' = [c0 EXCEPT !.eff = lst, !.hist = r.hist]
                    /\ UNCHANGED <<alert_list, merged_list, resume_token,
                                   cache_file, retry>>

get_info_from_alerts ==
    \/ GetInfoCall(FALSE, <<>>)
    \/ /\ "merged_list" \in attrs /\ merged_list # <<>>
       /\ GetInfoCall(TRUE, merged_list)

-----------------------------------------------------------------------------
(* Stream.generic_stream *)

Tokens == {"tokA", "tokB"}

\* with open(<cache_dir>/resume_token.json, "w") as outfile: json.dump(...)
\* what the file holds afterwards: open() failing leaves it alone, a failure
\* while writing leaves the file truncated by open(..., "w")
CacheAfter(outcome, old, token) ==
    CASE outcome = "written"     -> token
      [] outcome = "open_failed" -> old
      [] outcome = "dump_failed" -> "truncated"

\* how generic_stream ends once self.resume_token is set, given what the
\* cache write did: nothing in the method handles an OSError
AfterCacheWrite(outcome, token) ==
    IF outcome = "written"
    THEN [raised |-> "", ret |-> <<token>>]
    ELSE [raised |-> "OSError", ret |-> <<>>]

generic_stream ==
    /\ retry.pc = "idle"
    /\ \E ok \in BOOLEAN, token \in Tokens,
          outcome \in {"written", "open_failed", "dump_failed"} :
        LET c0 == [NoCall EXCEPT !.op = "generic_stream", !.pre_attrs = attrs,
                                 !.response_ok = ok, !.cache = outcome]
        IN  IF ~ok      \* if not response.ok: raise ValueError(...)
            THEN /\ outcome = "written"   \* the cache is not reached
                 /\ call' = [c0 EXCEPT !.raised = "ValueError", !.cache = ""]
                 /\ UNCHANGED <<heap, attrs, alert_list, merged_list, data,
                                resume_token, cache_file, n_info, retry>>
            ELSE LET end == AfterCacheWrite(outcome, token)
                 IN  /\ resume_token' = token
                     /\ attrs' = attrs \cup {"resume_token"}
                     /\ cache_file' = CacheAfter(outcome, cache_file, token)
                     /\ call' = [c0 EXCEPT !.raised = end.raised,
                                           !.ret = end.ret]
                     /\ UNCHANGED <<heap, alert_list, merged_list, data,
                                    n_info, retry>>

-----------------------------------------------------------------------------
(* Stream.access_stream and the backoff.on_exception decorator around it *)

max_time == 3600

\* a giveup that lets status 500 be retried too
giveup_Also500(status) == status \notin {423, 500}

\* giveup=lambda e: e.response.status_code not in {423}
giveup(status) == status \notin {423}

\* backoff.expo: 1, 2, 4, ... seconds
expo(n) == 2 ^ n

\* the wait before the next attempt: the jittered value, never past the
\* time budget.  The jitter draws from [0, value]; half and all of it stand
\* for the draw.
NextWaits(n, elapsed) ==
    { IF v < max_time - elapsed THEN v ELSE max_time - elapsed :
        v \in {expo(n) \div 2, expo(n)} }

\* a budget of 360 seconds, a digit lost
MaxTimeExceeded_360(elapsed) == elapsed >= 360

\* the decorator stops retrying when the attempt began past the budget
MaxTimeExceeded(elapsed) == elapsed >= max_time

NoRetry == [pc |-> "idle", tries |-> 0, elapsed |-> 0, only423 |-> TRUE]

\* what the loader can do in one attempt
Failures == {"HTTPError423", "HTTPError500", "ConnectionError"}
StatusOf(exc) == IF exc = "HTTPError423" THEN 423 ELSE 500
IsHTTPError(exc) == exc \in {"HTTPError423", "HTTPError500"}

\* alertlist.append(alert) for each alert; self.alert_list = alertlist
AccessStreamBody(alerts) ==
    LET ids == [i \in DOMAIN alerts |-> Len(heap) + i]
    IN  /\ heap' = heap \o alerts
        /\ alert_list' = ids
        /\ attrs' = attrs \cup {"alert_list"}
        /\ call' = [NoCall EXCEPT !.op = "access_stream", !.pre = heap,
                                  !.pre_attrs = attrs,
                                  !.pre_alert_list = alert_list, !.ret = ids]
        /\ UNCHANGED <<merged_list, data, resume_token, cache_file, n_info>>

\* access_stream(token) whose first attempt succeeds; the instance consumes
\* one stream of up to `max` alerts
AccessStreamOk(catalog, max) ==
    /\ heap = <<>>
    /\ retry.pc = "idle"
    /\ \E alerts \in SeqsUpTo(catalog, max) :
        /\ AccessStreamBody(alerts)
        /\ UNCHANGED retry

\* the call enters the decorator: tries = 0, start = now
access_stream_begin ==
    /\ retry.pc = "idle"
    /\ \E given \in BOOLEAN :
        /\ retry' = [pc |-> "attempt", tries |-> 1, elapsed |-> 0,
                     only423 |-> TRUE]
        /\ call' = [NoCall EXCEPT !.op = "access_stream", !.given = given,
                                  !.pre = heap, !.pre_attrs = attrs,
                                  !.pre_alert_list = alert_list,
                                  !.raised = "running"]
        /\ UNCHANGED <<heap, attrs, alert_list, merged_list, data,
                       resume_token, cache_file, n_info>>

\* if not resume_token: resume_token = self.resume_token
NeedsStoredToken == ~call.given /\ "resume_token" \notin attrs

\* the alert of the stream read in the retry specification
StreamAlert == Alert(1, Cand(Epoch(1), 1, 18, Epoch(0)), <<PrvLim(Epoch(0), 2)>>)

\* the decorator's locals are gone when the call ends.  The call record
\* keeps whether an attempt was repeated, whether every failure was a 423
\* and, for a call that ends with the retried error, the time spent
Ended(c, exc) ==
    [c EXCEPT !.raised = exc,
              !.retried = retry.tries > 1,
              !.elapsed = IF exc = "HTTPError423" THEN retry.elapsed ELSE 0,
              !.only423 = retry.only423 /\ exc \in {"", "HTTPError423"}]

\* an attempt runs to the end: the loader yields a stream that holds one
\* alert the first time it is read and none afterwards
access_stream_return ==
    /\ retry.pc = "attempt"
    /\ ~NeedsStoredToken
    /\ \E alerts \in (IF heap = <<>> THEN {<<>>, <<StreamAlert>>} ELSE {<<>>}) :
        LET ids == [i \in DOMAIN alerts |-> Len(heap) + i]
        IN  /\ heap' = heap \o alerts
            /\ alert_list' = ids
            /\ attrs' = attrs \cup {"alert_list"}
            /\ call' = [Ended(call, "") EXCEPT !.ret = ids]
            /\ retry' = NoRetry
            /\ UNCHANGED <<merged_list, data, resume_token, cache_file, n_info>>

\* an attempt fails and the exception leaves the decorator: it is no
\* HTTPError, or giveup(e) holds, or the attempt began past max_time
access_stream_raise ==
    /\ retry.pc = "attempt"
    /\ \E exc \in Failures \cup {"AttributeError"} :
        /\ (exc = "AttributeError") = NeedsStoredToken
        /\ \/ ~IsHTTPError(exc)
           \/ giveup(StatusOf(exc))
           \/ MaxTimeExceeded(retry.elapsed)
        /\ call' = Ended(call, exc)
        /\ retry' = NoRetry
        /\ UNCHANGED <<heap, attrs, alert_list, merged_list, data,
                       resume_token, cache_file, n_info>>

\* an attempt fails with an HTTPError the decorator retries: it sleeps and
\* the next attempt begins
access_stream_backoff ==
    /\ retry.pc = "attempt"
    /\ ~NeedsStoredToken
    /\ \E exc \in { e \in Failures : IsHTTPError(e) } :
        /\ ~giveup(StatusOf(exc))
        /\ ~MaxTimeExceeded(retry.elapsed)
        /\ \E seconds \in NextWaits(retry.tries - 1, retry.elapsed) :
            retry' = [retry EXCEPT !.tries = @ + 1,
                                   !.elapsed = @ + seconds,
                                   !.only423 = @ /\ exc = "HTTPError423"]
        /\ UNCHANGED <<heap, attrs, alert_list, merged_list, data,
                       resume_token, cache_file, call, n_info>>

-----------------------------------------------------------------------------

Init ==
    /\ heap = <<>>
    /\ attrs = {}
    /\ alert_list = <<>>
    /\ merged_list = <<>>
    /\ data = <<>>
    /\ resume_token = ""
    /\ cache_file = ""
    /\ call = NoCall
    /\ n_info = 0
    /\ retry = NoRetry

load_merge == AccessStreamOk(MergeCatalog, MaxHeap)
load_info == AccessStreamOk(InfoCatalog, MaxInfoAlerts)

Next == load_merge \/ merge_alerts \/ get_info_from_alerts
Spec == Init /\ [][Next]_vars

NextStream ==
    \/ generic_stream
    \/ access_stream_begin
    \/ access_stream_return
    \/ access_stream_raise
    \/ access_stream_backoff
SpecStream == Init /\ [][NextStream]_vars

NextInfo == load_info \/ merge_alerts \/ get_info_from_alerts
SpecInfo == Init /\ [][NextInfo]_vars

-----------------------------------------------------------------------------
(* Properties of merge_alerts.  After a call that returned, call.eff is the *)
(* list the method worked on, call.pre the alerts as they were when it was  *)
(* called and call.ret the list it returned.                                *)

MergeReturned == call.op = "merge_alerts" /\ call.raised = ""

\* the alerts of object o in the list the call worked on
InputGroup(o) == { call.eff[i] : i \in { j \in DOMAIN call.eff :
                                            call.pre[call.eff[j]].objectId = o } }

\* every detection value the input alerts of object o carry
InputDetections(o) ==
    UNION { {call.pre[a].candidate} \cup Range(call.pre[a].prv_candidates) :
            a \in InputGroup(o) }

\* the detections of emitted alert m, the current one first; its history
\* start is read as it was in the input, since the merge rewrites it
EmittedDetections(m) ==
    <<[heap[m].candidate EXCEPT !.jdstarthist = call.pre[m].candidate.jdstarthist]>>
        \o heap[m].prv_candidates

\* C1: the detections of the alert emitted for an object (current candidate
\* and prv_candidates) are exactly the detection values of all input alerts
\* of that object, none lost and none occurring twice, also when alerts of
\* the group share a candidate jd.
C1_MergeCompleteness ==
    MergeReturned =>
        \A k \in DOMAIN call.ret :
            LET m    == call.ret[k]
                dets == EmittedDetections(m)
            IN  /\ Range(dets) = InputDetections(heap[m].objectId)
                /\ \A i, j \in DOMAIN dets : i # j => dets[i] # dets[j]

\* C5: merge_alerts(alert_list) called with a list returns one merged alert
\* per distinct objectId of the list that was passed, none for an empty list,
\* whatever list the instance stores.
C5_OnePerPassedObjectId ==
    (MergeReturned /\ call.given) =>
        /\ Len(call.ret) = Cardinality(KeysOf(call.pre, call.arg))
        /\ \A o \in KeysOf(call.pre, call.arg) :
               \E k \in DOMAIN call.ret : heap[call.ret[k]].objectId = o

\* C6: for every objectId of the input, the candidate of the emitted alert
\* has the minimum jdstarthist of the input alerts of that object.
C6_HistoryStartMinimal ==
    MergeReturned =>
        \A o \in KeysOf(call.pre, call.eff) :
            /\ \E k \in DOMAIN call.ret : heap[call.ret[k]].objectId = o
            /\ \A k \in DOMAIN call.ret :
                   heap[call.ret[k]].objectId = o =>
                       /\ \A a \in InputGroup(o) :
                              heap[call.ret[k]].candidate.jdstarthist
                                  <= call.pre[a].candidate.jdstarthist
                       /\ \E a \in InputGroup(o) :
                              heap[call.ret[k]].candidate.jdstarthist
                                  = call.pre[a].candidate.jdstarthist

\* a merge of several alerts whose latest did not carry the earliest start
C6_Witness ==
    /\ MergeReturned
    /\ \E k \in DOMAIN call.ret :
           /\ Cardinality(InputGroup(heap[call.ret[k]].objectId)) >= 2
           /\ heap[call.ret[k]].candidate.jdstarthist
                  < call.pre[call.ret[k]].candidate.jdstarthist

\* C7: an object with exactly one alert in the input is emitted as that
\* alert, with the candidate and the prv_candidates it had.
C7_SingleAlertPassthrough ==
    MergeReturned =>
        \A o \in KeysOf(call.pre, call.eff) :
            Cardinality(InputGroup(o)) = 1 =>
                /\ \E k \in DOMAIN call.ret : heap[call.ret[k]].objectId = o
                /\ \A k \in DOMAIN call.ret :
                       heap[call.ret[k]].objectId = o =>
                           /\ call.ret[k] \in InputGroup(o)
                           /\ heap[call.ret[k]] = call.pre[call.ret[k]]

\* a merge that passed one object's single alert through while it rewrote
\* the alerts of another object
C7_Witness ==
    /\ MergeReturned
    /\ heap # call.pre
    /\ \E o \in KeysOf(call.pre, call.eff) : Cardinality(InputGroup(o)) = 1

-----------------------------------------------------------------------------
(* Properties of get_info_from_alerts.  After a call that returned,        *)
(* call.eff is the merged list it read, call.pre the alerts as they were   *)
(* and call.hist[k] the detection history it built for the k-th alert.     *)

InfoReturned == call.op = "get_info_from_alerts" /\ call.raised = ""

\* C2: the history over which means and peaks are computed holds the
\* current candidate of the merged alert exactly once, in every call.
C2_CandidateCountedOnce ==
    InfoReturned =>
        \A k \in DOMAIN call.eff :
            Count(call.pre[call.eff[k]].candidate, call.hist[k]) = 1

\* C10: get_info_from_alerts leaves every alert of the merged list as it was.
C10_MergedAlertsUnchanged ==
    InfoReturned => \A k \in DOMAIN call.eff : heap[call.eff[k]] = call.pre[call.eff[k]]

\* the row of the table for object o
RowOf(o) == data[CHOOSE i \in DOMAIN data : data[i].objectId = o].row

\* the detections of alert t in iteration order: the stored prv_candidates,
\* then the current candidate
IterationOrder(t) == call.pre[t].prv_candidates \o <<call.pre[t].candidate>>

\* C8: peak_mjd_<band> is jd - 2400000.5 of the first detection, in
\* iteration order, that has the minimum magpsf of the band, and null when
\* no detection with a magpsf is in the band.
C8_PeakEpoch ==
    InfoReturned =>
        \A k \in DOMAIN call.eff : \A f \in {1, 2, 3} :
            LET t    == call.eff[k]
                seq  == IterationOrder(t)
                band == { i \in DOMAIN seq :
                            "magpsf" \in DOMAIN seq[i] /\ seq[i].fid = f }
                peak == RowOf(call.pre[t].objectId)[PeakKey(f)]
            IN  IF band = {}
                THEN peak = None
                ELSE \E i \in band :
                        /\ \A j \in band : seq[i].magpsf <= seq[j].magpsf
                        /\ \A j \in band : j < i => seq[j].magpsf > seq[i].magpsf
                        /\ peak = Some(2 * seq[i].jd - 4800001)

\* two detections of a band share its minimum magnitude at different epochs,
\* another band holds no detection, and the table has been computed
C8_Witness ==
    /\ InfoReturned
    /\ \E k \in DOMAIN call.eff :
           LET seq == IterationOrder(call.eff[k])
           IN  /\ \E i, j \in DOMAIN seq :
                      /\ i < j
                      /\ "magpsf" \in DOMAIN seq[i] /\ "magpsf" \in DOMAIN seq[j]
                      /\ seq[i].fid = seq[j].fid
                      /\ seq[i].jd # seq[j].jd
                      /\ seq[i].magpsf = seq[j].magpsf
                      /\ \A l \in DOMAIN seq :
                             ("magpsf" \in DOMAIN seq[l] /\ seq[l].fid = seq[i].fid)
                                 => seq[l].magpsf >= seq[i].magpsf
               /\ RowOf(call.pre[call.eff[k]].objectId)[PeakKey(3)] = None

-----------------------------------------------------------------------------
(* Properties of generic_stream and access_stream *)

\* C4: when the query succeeded and writing the cache file fails,
\* generic_stream still returns the resume token, with self.resume_token
\* set to it, and no exception reaches the caller.
C4_CacheFailureNotFatal ==
    (call.op = "generic_stream" /\ call.response_ok /\ call.cache # "written") =>
        /\ call.raised = ""
        /\ "resume_token" \in attrs
        /\ call.ret = <<resume_token>>

AccessEnded == call.op = "access_stream" /\ call.raised # "running"

\* every attempt of the call failed with status 423 and the call has ended
EndedOn423Only == AccessEnded /\ call.raised # "" /\ call.only423

C9_OnlyNotReadyRetried ==
    /\ retry.pc = "attempt" => retry.only423
    /\ (AccessEnded /\ call.raised \notin {"", "HTTPError423"}) =>
           /\ call.raised \in {"HTTPError500", "ConnectionError", "AttributeError"}
           /\ alert_list = call.pre_alert_list
           /\ attrs = call.pre_attrs
           /\ heap = call.pre

\* a status 500 that followed a retried 423, on an instance that holds the
\* alert list of an earlier call
C9_Witness ==
    /\ AccessEnded
    /\ call.raised = "HTTPError500"
    /\ call.retried
    /\ "alert_list" \in attrs
    /\ alert_list # <<>>

====
